---------------------------- MODULE Spec2Model ----------------------------
(***************************************************************************)
(* Model of lopdf's writer (src/src/writer.rs) and content encoder         *)
(* (src/src/content.rs): the serialisation of a Document to PDF bytes,    *)
(* the cross-reference table and the Contents byte-map.                    *)
(*                                                                         *)
(* Bytes are integers 0..255, byte strings are sequences of bytes.  The    *)
(* destination is the sequence `out` of the bytes it accepted.  A write    *)
(* handler first lays out the writes it would issue, one chunk per          *)
(* write_all, write! or writeln! statement it executes; the sink accepts   *)
(* a prefix of them and may fail the next.                                 *)
(***************************************************************************)
EXTENDS Integers, Sequences, FiniteSets, TLC

VARIABLES
    op,             \* the entry point being exercised
    arg,            \* its input (document, byte string, xref map, object)
    pc,             \* position inside the entry point
    out,            \* bytes accepted by the wrapped destination
    bytes_written,  \* CountingWrite.bytes_written
    nwrites,        \* history: number of writes issued to the destination
    write_failed,   \* history: the destination has failed a write
    xref,           \* Xref.entries: numeric id -> entry
    contents_map,   \* Option<BTreeMap<ObjectId, (u32, u32)>>
    idx,            \* position of the object loop in the object table
    xref_start,     \* save_internal's local xref_start
    emitted,        \* history: one record per indirect object emitted
    sections,       \* history: one record per call of output_entries
    outputs         \* history: the outputs of the saves finished before

vars == <<op, arg, pc, out, bytes_written, nwrites, write_failed, xref,
          contents_map, idx, xref_start, emitted, sections, outputs>>

-----------------------------------------------------------------------------
(* Bounds of the model.                                                    *)

\* longest byte string given to write_string
MaxStrLen == 4
\* longest name built from NameAlphabet given to write_name
MaxNameLen == 2

-----------------------------------------------------------------------------
(* Bytes and byte strings.                                                 *)

Min(a, b) == IF a < b THEN a ELSE b

RECURSIVE Flatten(_)
\* the concatenation of a sequence of chunks
Flatten(chunks) ==
    IF chunks = <<>> THEN <<>>
    ELSE Head(chunks) \o Flatten(Tail(chunks))

RECURSIVE TotalLen(_)
TotalLen(chunks) ==
    IF chunks = <<>> THEN 0
    ELSE Len(Head(chunks)) + TotalLen(Tail(chunks))

\* the chunks that are actual write_all calls with something to write
NonEmpty(chunks) == SelectSeq(chunks, LAMBDA c : c # <<>>)

LP == 40        \* (
RP == 41        \* )
BSL == 92       \* backslash
CR == 13
LF == 10
SP == 32
SLASH == 47
HASH == 35

\* "{:X}" of one hex digit: 0-9, A-F
HexDigit(d) == IF d < 10 THEN 48 + d ELSE 55 + d

\* "{:02X}" of a byte
Hex2(byte) == <<HexDigit(byte \div 16), HexDigit(byte % 16)>>

RECURSIVE Dec(_)
\* decimal text of a natural number ("{}" of an unsigned integer)
Dec(n) == IF n < 10 THEN <<48 + n>> ELSE Dec(n \div 10) \o <<48 + (n % 10)>>

\* itoa::Buffer::format of an i64
Itoa(v) == IF v < 0 THEN <<45>> \o Dec(-v) ELSE Dec(v)

ZeroPadNone(digits, w) == digits

RECURSIVE ZeroPad(_, _)
\* "{:>0w}" of an unsigned integer: zero-padded on the left to w digits
ZeroPad(digits, w) == IF Len(digits) >= w THEN digits ELSE ZeroPad(<<48>> \o digits, w)

-----------------------------------------------------------------------------
(* Lexical encoder: write_name and write_string.                           *)

\* b" \t\n\r\x0C()<>[]{}/%#"
NameDelimiters == <<32, 9, 10, 13, 12, 40, 41, 60, 62, 91, 93, 123, 125, 47, 37, 35>>

InBytes(byte, bytes) == \E i \in 1..Len(bytes) : bytes[i] = byte

NameNeedsEscapeNoUpper(byte) == InBytes(byte, NameDelimiters) \/ byte < 33

\* the test of write_name's if
NameNeedsEscape(byte) == InBytes(byte, NameDelimiters) \/ byte < 33 \/ byte > 126

\* the chunks of one byte of a name: write!(file, "#{:02X}", byte) or the byte
NameByteChunks(byte) ==
    IF NameNeedsEscape(byte) THEN << <<HASH>> \o Hex2(byte) >> ELSE << <<byte>> >>

RECURSIVE NameBodyChunks(_)
NameBodyChunks(name) ==
    IF name = <<>> THEN <<>>
    ELSE NameByteChunks(Head(name)) \o NameBodyChunks(Tail(name))

\* write_name: the write_all calls it issues
WriteNameChunks(name) == << <<SLASH>> >> \o NameBodyChunks(name)

RECURSIVE ScanLiteral(_, _, _, _)
\* the first loop of the Literal branch, from index i on: the pair
\* <<escape_indice, parentheses>> it ends with
ScanLiteral(text, i, escape_indice, parentheses) ==
    IF i > Len(text) THEN <<escape_indice, parentheses>>
    ELSE IF text[i] = LP
        THEN ScanLiteral(text, i + 1, escape_indice, Append(parentheses, i))
    ELSE IF text[i] = RP
        THEN IF parentheses # <<>>
             THEN ScanLiteral(text, i + 1, escape_indice,
                              SubSeq(parentheses, 1, Len(parentheses) - 1))
             ELSE ScanLiteral(text, i + 1, Append(escape_indice, i), parentheses)
    ELSE IF text[i] = BSL \/ text[i] = CR
        THEN ScanLiteral(text, i + 1, Append(escape_indice, i), parentheses)
    ELSE ScanLiteral(text, i + 1, escape_indice, parentheses)

EscapeIndiceNoAppend(text) == ScanLiteral(text, 1, <<>>, <<>>)[1]

\* escape_indice after escape_indice.append(&mut parentheses)
EscapeIndice(text) ==
    LET scan == ScanLiteral(text, 1, <<>>, <<>>) IN scan[1] \o scan[2]

LiteralByteChunksBare(text, i, escape_indice) == << <<text[i]>> >>

LiteralByteChunksRawCR(text, i, escape_indice) ==
    IF \E k \in 1..Len(escape_indice) : escape_indice[k] = i
    THEN << <<BSL>>, <<text[i]>> >>
    ELSE << <<text[i]>> >>

\* the write_all calls of the second loop for the byte at index i
LiteralByteChunks(text, i, escape_indice) ==
    IF \E k \in 1..Len(escape_indice) : escape_indice[k] = i
    THEN << <<BSL>>, <<IF text[i] = CR THEN 114 ELSE text[i]>> >>
    ELSE << <<text[i]>> >>

RECURSIVE LiteralBodyChunks(_, _, _)
LiteralBodyChunks(text, i, escape_indice) ==
    IF i > Len(text) THEN <<>>
    ELSE LiteralByteChunks(text, i, escape_indice)
         \o LiteralBodyChunks(text, i + 1, escape_indice)

RECURSIVE HexBodyChunks(_)
HexBodyChunks(text) ==
    IF text = <<>> THEN <<>>
    ELSE <<Hex2(Head(text))>> \o HexBodyChunks(Tail(text))

\* write_string: the write_all calls it issues
WriteStringChunks(text, format) ==
    IF format = "Literal"
    THEN LET escape_indice == EscapeIndice(text) IN
         << <<LP>> >>
         \o (IF escape_indice # <<>>
             THEN LiteralBodyChunks(text, 1, escape_indice)
             ELSE <<text>>)
         \o << <<RP>> >>
    ELSE << <<60>> >> \o HexBodyChunks(text) \o << <<62>> >>


-----------------------------------------------------------------------------
(* Position-tracking sink: CountingWrite over a destination that may fail. *)

\* longest prefix of a failed write_all's buffer the destination may have
\* taken before it reported the failure
MaxPartial == 1

\* the values `fail` may take for a handler that issues `chunks`:
\* 0 = every write succeeds, k > 0 = the k-th write fails; the Vec<u8>
\* that save_to is given here takes every write
FailPoints(chunks) == IF op = "save_to" THEN {0} ELSE 0..Len(NonEmpty(chunks))

\* the number of write_all calls that succeed
Accepted(chunks, fail) == IF fail = 0 THEN Len(NonEmpty(chunks)) ELSE fail - 1

\* the bytes the destination holds after the handler: the accepted chunks
\* and `partial` bytes of the failed one
SinkBytes(chunks, fail, partial) ==
    LET cs == NonEmpty(chunks) IN
    Flatten(SubSeq(cs, 1, Accepted(chunks, fail)))
    \o (IF fail = 0 THEN <<>> ELSE SubSeq(cs[fail], 1, partial))

CountAfterSuccessOnly(count, chunks, fail) ==
    count + TotalLen(SubSeq(NonEmpty(chunks), 1, Accepted(chunks, fail)))

\* CountingWrite::write_all: the counter grows by buffer.len() before the
\* inner write_all is tried, whether it then succeeds or not
CountAfter(count, chunks, fail) ==
    LET cs == NonEmpty(chunks) IN
    count + TotalLen(SubSeq(cs, 1, Accepted(chunks, fail)))
          + (IF fail = 0 THEN 0 ELSE Len(cs[fail]))

\* the write_all calls issued, the failed one included
CallsAfter(calls, chunks, fail) ==
    calls + Accepted(chunks, fail) + (IF fail = 0 THEN 0 ELSE 1)

\* the sink's part of a handler that issues `chunks`
Sink(chunks, fail, partial) ==
    /\ out' = out \o SinkBytes(chunks, fail, partial)
    /\ bytes_written' = CountAfter(bytes_written, chunks, fail)
    /\ nwrites' = CallsAfter(nwrites, chunks, fail)
    /\ write_failed' = (write_failed \/ fail # 0)

\* the partial prefixes the destination may have taken of the failed chunk
Partials(chunks, fail) ==
    IF fail = 0 THEN {0}
    ELSE 0..Min(Len(NonEmpty(chunks)[fail]) - 1, MaxPartial)

-----------------------------------------------------------------------------
(* Values shared by the specifications.                                    *)

EmptyMap == [x \in {} |-> <<0, 0>>]
NoMap == [some |-> FALSE, m |-> EmptyMap]
SomeMap(m) == [some |-> TRUE, m |-> m]
NoOid == [some |-> FALSE, id |-> <<0, 0>>]
SomeOid(oid) == [some |-> TRUE, id |-> oid]

\* the part of the state an entry point does not use
Idle ==
    /\ xref = EmptyMap
    /\ contents_map = NoMap
    /\ idx = 0
    /\ xref_start = 0
    /\ emitted = <<>>
    /\ sections = <<>>
    /\ outputs = <<>>

Fresh ==
    /\ pc = "start"
    /\ out = <<>>
    /\ bytes_written = 0
    /\ nwrites = 0
    /\ write_failed = FALSE

-----------------------------------------------------------------------------
(* Objects and the object serializer.                                      *)
(*                                                                         *)
(* A Dictionary is the sequence of its entries in insertion order, each    *)
(* [key, value]; keys are distinct.  A Real is held in tenths.             *)

Null == [t |-> "Null"]
Boolean(value) == [t |-> "Boolean", value |-> value]
Integer(int) == [t |-> "Integer", int |-> int]
Real(tenths) == [t |-> "Real", tenths |-> tenths]
Name(name) == [t |-> "Name", name |-> name]
String(text, format) == [t |-> "String", text |-> text, format |-> format]
Array(items) == [t |-> "Array", items |-> items]
Dictionary(dict) == [t |-> "Dictionary", dict |-> dict]
Stream(dict, content) == [t |-> "Stream", dict |-> dict, content |-> content]
Reference(id) == [t |-> "Reference", id |-> id]
Entry(key, value) == [key |-> key, value |-> value]

\* b"Contents"
ContentsKey == <<67, 111, 110, 116, 101, 110, 116, 115>>

NeedSeparatorNever(object) == FALSE

\* Writer::need_separator
NeedSeparator(object) ==
    object.t \in {"Null", "Boolean", "Integer", "Real", "Reference"}

NeedEndSeparatorAsLeading(object) ==
    object.t \in {"Null", "Boolean", "Integer", "Real", "Reference"}

\* Writer::need_end_separator
NeedEndSeparator(object) ==
    object.t \in {"Null", "Boolean", "Integer", "Real", "Name", "Reference", "Stream"}

\* write!(file, "{}", value) of a Real: the shortest decimal text
RealText(tenths) ==
    LET a == IF tenths < 0 THEN -tenths ELSE tenths IN
    (IF tenths < 0 THEN <<45>> ELSE <<>>)
    \o Dec(a \div 10)
    \o (IF a % 10 = 0 THEN <<>> ELSE <<46, 48 + (a % 10)>>)

\* the result of a write_* call that succeeds: the write_all calls issued
\* and the Contents byte-map handed back
Written(chunks, map) == [chunks |-> chunks, map |-> map]

ContentsStartBeforeSeparator(after_key, value) == after_key

\* let start = file.bytes_written as u32, taken after the separator
ContentsStart(after_key, value) ==
    after_key + (IF NeedSeparator(value) THEN 1 ELSE 0)

RecordSpanFirstWins(key, oid, map, start, end) ==
    IF key = ContentsKey /\ oid.some /\ map.some /\ oid.id \notin DOMAIN map.m
    THEN SomeMap([x \in DOMAIN map.m \cup {oid.id} |->
                     IF x = oid.id THEN <<start, end>> ELSE map.m[x]])
    ELSE map

\* if key == b"Contents" { ... contents_map.insert(oid, (start, end)) }
RecordSpan(key, oid, map, start, end) ==
    IF key = ContentsKey /\ oid.some /\ map.some
    THEN SomeMap([x \in DOMAIN map.m \cup {oid.id} |->
                     IF x = oid.id THEN <<start, end>> ELSE map.m[x]])
    ELSE map

RECURSIVE WriteObject(_, _, _, _)
RECURSIVE WriteArrayFrom(_, _, _, _, _)
RECURSIVE WriteDictFrom(_, _, _, _, _)

\* the for loop of write_array from the i-th element on; pos is
\* file.bytes_written when it is reached
WriteArrayFrom(pos, array, i, oid, map) ==
    IF i > Len(array) THEN Written(<<>>, map)
    ELSE LET sep == IF i > 1 /\ NeedSeparator(array[i]) THEN << <<SP>> >> ELSE <<>>
             one == WriteObject(pos + TotalLen(sep), array[i], oid, map)
             rest == WriteArrayFrom(pos + TotalLen(sep) + TotalLen(one.chunks),
                                    array, i + 1, oid, one.map)
         IN Written(sep \o one.chunks \o rest.chunks, rest.map)

\* Writer::write_array
WriteArray(pos, array, oid, map) ==
    LET body == WriteArrayFrom(pos + 1, array, 1, oid, map)
    IN Written(<< <<91>> >> \o body.chunks \o << <<93>> >>, body.map)

\* the for loop of write_dictionary from the i-th entry on
WriteDictFrom(pos, dict, i, oid, map) ==
    IF i > Len(dict) THEN Written(<<>>, map)
    ELSE LET key == WriteNameChunks(dict[i].key)
             sep == IF NeedSeparator(dict[i].value) THEN << <<SP>> >> ELSE <<>>
             start == ContentsStart(pos + TotalLen(key), dict[i].value)
             one == WriteObject(pos + TotalLen(key) + TotalLen(sep),
                                dict[i].value, oid, map)
             end == pos + TotalLen(key) + TotalLen(sep) + TotalLen(one.chunks)
             rest == WriteDictFrom(end, dict, i + 1, oid,
                                   RecordSpan(dict[i].key, oid, one.map, start, end))
         IN Written(key \o sep \o one.chunks \o rest.chunks, rest.map)

\* Writer::write_dictionary
WriteDictionary(pos, dict, oid, map) ==
    LET body == WriteDictFrom(pos + 2, dict, 1, oid, map)
    IN Written(<< <<60, 60>> >> \o body.chunks \o << <<62, 62>> >>, body.map)

\* Writer::write_stream: the dictionary, "stream\n", the content, "endstream"
WriteStream(pos, stream, oid, map) ==
    LET head == WriteDictionary(pos, stream.dict, oid, map)
    IN Written(head.chunks
               \o << <<115, 116, 114, 101, 97, 109, LF>>,
                     stream.content,
                     <<101, 110, 100, 115, 116, 114, 101, 97, 109>> >>,
               head.map)

\* Writer::write_object
WriteObject(pos, object, oid, map) ==
    CASE object.t = "Null" -> Written(<< <<110, 117, 108, 108>> >>, map)
      [] object.t = "Boolean" ->
            Written(<< IF object.value THEN <<116, 114, 117, 101>>
                       ELSE <<102, 97, 108, 115, 101>> >>, map)
      [] object.t = "Integer" -> Written(<<Itoa(object.int)>>, map)
      [] object.t = "Real" -> Written(<<RealText(object.tenths)>>, map)
      [] object.t = "Name" -> Written(WriteNameChunks(object.name), map)
      [] object.t = "String" ->
            Written(WriteStringChunks(object.text, object.format), map)
      [] object.t = "Array" -> WriteArray(pos, object.items, oid, map)
      [] object.t = "Dictionary" -> WriteDictionary(pos, object.dict, oid, map)
      [] object.t = "Stream" -> WriteStream(pos, object, oid, map)
      [] object.t = "Reference" ->
            Written(<< Dec(object.id[1]) \o <<SP>> \o Dec(object.id[2]) \o <<SP, 82>> >>,
                    map)

\* the bytes of an object written on its own, as Content::encode writes
\* an operand: no object id, no Contents byte-map
ObjectBytes(object) == Flatten(WriteObject(0, object, NoOid, NoMap).chunks)

\* write_indirect_object: the header, the object, "endobj"
WriteIndirectObject(pos, oid, object, map) ==
    LET head == << Dec(oid[1]) \o <<SP>> \o Dec(oid[2]) \o <<SP, 111, 98, 106>>
                   \o (IF NeedSeparator(object) THEN <<SP>> ELSE <<>>) >>
        body == WriteObject(pos + TotalLen(head), object, SomeOid(oid), map)
        tail == << (IF NeedEndSeparator(object) THEN <<SP>> ELSE <<>>)
                   \o <<101, 110, 100, 111, 98, 106, LF>> >>
    IN Written(head \o body.chunks \o tail, body.map)

-----------------------------------------------------------------------------
(* Cross-reference table: Xref and write_xref.                             *)

\* largest numeric id of the xref maps given to write_xref on its own
MaxXrefId == 4

\* XrefEntry::Normal { offset, generation }
Normal(offset, generation) == [kind |-> "Normal", a |-> offset, b |-> generation]
\* XrefEntry::Compressed { container, index }
Compressed(container, index) == [kind |-> "Compressed", a |-> container, b |-> index]
\* XrefEntry::Free
Free == [kind |-> "Free", a |-> 0, b |-> 0]

\* Xref::insert: entries.insert(id, entry), replacing any entry of that id
XrefInsert(entries, id, entry) ==
    [x \in DOMAIN entries \cup {id} |-> IF x = id THEN entry ELSE entries[x]]

RECURSIVE SortedSeq(_)
\* xref.entries.keys() collected and sorted
SortedSeq(ids) ==
    IF ids = {} THEN <<>>
    ELSE LET least == CHOOSE x \in ids : \A y \in ids : x <= y
         IN <<least>> \o SortedSeq(ids \ {least})

RECURSIVE XrefLoop(_, _, _, _, _, _)
\* the for loop of write_xref from the i-th key on and the call of
\* output_entries that follows it: the sequence of the calls made, each
\* with its start and the ids whose entries it was given
XrefLoop(keys, i, start, current, entries, calls) ==
    IF i > Len(keys)
    THEN Append(calls, [start |-> start, ids |-> entries])
    ELSE IF keys[i] # current
    THEN XrefLoop(keys, i + 1, keys[i], keys[i] + 1, <<keys[i]>>,
                  Append(calls, [start |-> start, ids |-> entries]))
    ELSE XrefLoop(keys, i + 1, start, current + 1, Append(entries, keys[i]), calls)

\* the calls of output_entries made by write_xref: start = 0, current = 1
OutputCalls(entries) == XrefLoop(SortedSeq(DOMAIN entries), 1, 0, 1, <<>>, <<>>)

SectionLenNoHead(start, ids) == Len(ids)

\* let len = if start == 0 { entries.len() + 1 } else { entries.len() }
SectionLen(start, ids) == IF start = 0 THEN Len(ids) + 1 ELSE Len(ids)

\* write_xref_entry: writeln!(file, "{:>010} {:>05} {} ", offset, generation, kind)
XrefEntryChunks(offset, generation, kind) ==
    << ZeroPad(Dec(offset), 10) \o <<SP>> \o ZeroPad(Dec(generation), 5)
       \o <<SP, kind, SP, LF>> >>

\* the synthetic head and the entry of a missing id: (0, 65535, 'f')
FreeLineChunks == XrefEntryChunks(0, 65535, 102)

RECURSIVE EntriesChunks(_, _, _)
\* for entry in entries.drain(..): a line for a Normal entry, nothing for
\* an entry of another kind
EntriesChunks(entries, ids, i) ==
    IF i > Len(ids) THEN <<>>
    ELSE (IF entries[ids[i]].kind = "Normal"
          THEN XrefEntryChunks(entries[ids[i]].a, entries[ids[i]].b, 110)
          ELSE <<>>)
         \o EntriesChunks(entries, ids, i + 1)

\* output_entries(start, entries)
OutputEntriesChunks(entries, start, ids) ==
    << Dec(start) \o <<SP>> \o Dec(SectionLen(start, ids)) \o <<LF>> >>
    \o (IF start = 0 THEN FreeLineChunks ELSE <<>>)
    \o EntriesChunks(entries, ids, 1)

RECURSIVE CallsChunks(_, _, _)
CallsChunks(entries, calls, i) ==
    IF i > Len(calls) THEN <<>>
    ELSE OutputEntriesChunks(entries, calls[i].start, calls[i].ids)
         \o CallsChunks(entries, calls, i + 1)

\* write_xref: the write_all calls it issues
WriteXrefChunks(entries) ==
    << <<120, 114, 101, 102, LF>> >>
    \o CallsChunks(entries, OutputCalls(entries), 1)

\* the subsections write_xref declares: one per call of output_entries,
\* with the start and the count of its header and the ids it was given
Sections(entries) ==
    LET calls == OutputCalls(entries) IN
    [i \in 1..Len(calls) |->
        [start |-> calls[i].start,
         len |-> SectionLen(calls[i].start, calls[i].ids),
         ids |-> calls[i].ids]]

\* out.write_u32::<BigEndian>(n) and out.write_u16::<BigEndian>(n)
U32BE(n) == <<n \div 16777216, (n \div 65536) % 256, (n \div 256) % 256, n % 256>>
U16BE(n) == <<n \div 256, n % 256>>

\* write_xref_entry of write_xref_stream: the type byte, the offset, the
\* generation
StreamEntry(offset, generation, kind) == <<kind>> \o U32BE(offset) \o U16BE(generation)

RECURSIVE StreamEntries(_, _, _)
\* for entry in entries.drain(..) of write_xref_stream: seven bytes for a
\* Normal and for a Compressed entry, nothing for a Free one
StreamEntries(entries, ids, i) ==
    IF i > Len(ids) THEN <<>>
    ELSE (CASE entries[ids[i]].kind = "Normal" ->
                    StreamEntry(entries[ids[i]].a, entries[ids[i]].b, 1)
            [] entries[ids[i]].kind = "Compressed" ->
                    StreamEntry(entries[ids[i]].a, entries[ids[i]].b, 2)
            [] entries[ids[i]].kind = "Free" -> <<>>)
         \o StreamEntries(entries, ids, i + 1)

\* output_entries(start, entries) of write_xref_stream: the bytes added to
\* the blob
StreamOutputEntries(entries, start, ids) ==
    (IF start = 0 THEN StreamEntry(0, 65535, 0) ELSE <<>>)
    \o StreamEntries(entries, ids, 1)

RECURSIVE StreamCalls(_, _, _)
StreamCalls(entries, calls, i) ==
    IF i > Len(calls) THEN <<>>
    ELSE StreamOutputEntries(entries, calls[i].start, calls[i].ids)
         \o StreamCalls(entries, calls, i + 1)

\* write_xref_stream: the blob; its (start, count) pairs are those of
\* Sections, the loop and the count being those of write_xref
WriteXrefStream(entries) == StreamCalls(entries, OutputCalls(entries), 1)

\* the ids {1,2,3,9} of the spec's scenario, as Normal entries
TestXref == [id \in {1, 2, 3, 9} |-> Normal(20 * id, 0)]

\* an entry of each kind for an id
XrefOfKind(id, kind) ==
    CASE kind = "Normal" -> Normal(20 * id, id % 2)
      [] kind = "Compressed" -> Compressed(7, id)
      [] kind = "Free" -> Free

XrefInputs ==
    UNION {{[id \in ids |-> XrefOfKind(id, kinds[id])] :
               kinds \in [ids -> {"Normal", "Compressed", "Free"}]}
           : ids \in SUBSET (0..MaxXrefId)}
    \cup {TestXref}

InitXref ==
    /\ op \in {"write_xref", "write_xref_stream"}
    /\ arg \in XrefInputs
    /\ Fresh
    /\ xref = arg
    /\ contents_map = NoMap
    /\ idx = 0
    /\ xref_start = 0
    /\ emitted = <<>>
    /\ sections = <<>>
    /\ outputs = <<>>

DoWriteXref ==
    /\ op = "write_xref"
    /\ pc = "start"
    /\ Sink(WriteXrefChunks(xref), 0, 0)
    /\ sections' = Sections(xref)
    /\ pc' = "done"
    /\ UNCHANGED <<outputs, op, arg, xref, contents_map, idx, xref_start, emitted>>

\* write_xref_stream(&xref): the blob goes to a Vec<u8> of its own, the
\* (start, count) pairs are returned with it
DoWriteXrefStream ==
    /\ op = "write_xref_stream"
    /\ pc = "start"
    /\ out' = WriteXrefStream(xref)
    /\ sections' = Sections(xref)
    /\ pc' = "done"
    /\ UNCHANGED <<outputs, op, arg, bytes_written, nwrites, write_failed, xref,
                   contents_map, idx, xref_start, emitted>>

NextXref ==
    \/ DoWriteXref
    \/ DoWriteXrefStream

SpecXref == InitXref /\ [][NextXref]_vars

-----------------------------------------------------------------------------
(* Document and save_internal.                                             *)

\* largest numeric id of a document's objects
MaxId == 2
\* most objects in a document's object table
MaxObjs == 2

\* b"Type", b"Size", b"Root"
TypeKey == <<84, 121, 112, 101>>
SizeKey == <<83, 105, 122, 101>>
RootKey == <<82, 111, 111, 116>>

\* "ObjStm", "XRef", "Linearized"
ObjStm == <<79, 98, 106, 83, 116, 109>>
XRef == <<88, 82, 101, 102>>
Linearized == <<76, 105, 110, 101, 97, 114, 105, 122, 101, 100>>
\* "Page", a type name save does not skip
Page == <<80, 97, 103, 101>>

RECURSIVE DictNameOf(_, _, _)
\* the Name held under `key` by a dictionary, if any
DictNameOf(dict, key, i) ==
    IF i > Len(dict) THEN [some |-> FALSE, name |-> <<>>]
    ELSE IF dict[i].key = key
    THEN (IF dict[i].value.t = "Name"
          THEN [some |-> TRUE, name |-> dict[i].value.name]
          ELSE [some |-> FALSE, name |-> <<>>])
    ELSE DictNameOf(dict, key, i + 1)

\* Object::type_name: the declared type name of a Dictionary or a Stream
TypeName(object) ==
    IF object.t \in {"Dictionary", "Stream"}
    THEN DictNameOf(object.dict, TypeKey, 1)
    ELSE [some |-> FALSE, name |-> <<>>]

SkippedNever(object) == FALSE

\* the object is left to other writers: its type name is one of
\* "ObjStm", "XRef", "Linearized"
Skipped(object) ==
    LET name == TypeName(object) IN
    name.some /\ name.name \in {ObjStm, XRef, Linearized}

DictSetClearing(dict, key, value) == <<Entry(key, value)>>

DictSetAppending(dict, key, value) == Append(dict, Entry(key, value))

RECURSIVE DictSetFrom(_, _, _, _)
DictSetFrom(dict, key, value, i) ==
    IF i > Len(dict) THEN Append(dict, Entry(key, value))
    ELSE IF dict[i].key = key
    THEN [dict EXCEPT ![i] = Entry(key, value)]
    ELSE DictSetFrom(dict, key, value, i + 1)

\* Dictionary::set: the value of an existing key is replaced, a new key is
\* added last
DictSet(dict, key, value) == DictSetFrom(dict, key, value, 1)

\* ObjectId's order: by numeric id, then by generation
OidLess(a, b) == a[1] < b[1] \/ (a[1] = b[1] /\ a[2] < b[2])

RECURSIVE OidsInOrder(_)
\* the keys of Document.objects in the order the map iterates them
OidsInOrder(oids) ==
    IF oids = {} THEN <<>>
    ELSE LET least == CHOOSE x \in oids : \A y \in oids \ {x} : OidLess(x, y)
         IN <<least>> \o OidsInOrder(oids \ {least})

LoopOidReversed(objects, i) ==
    LET order == OidsInOrder(DOMAIN objects) IN order[Len(order) + 1 - i]

\* for (&oid, object) in &self.objects: the oid of the i-th iteration
LoopOid(objects, i) == OidsInOrder(DOMAIN objects)[i]

\* the objects a document may hold
Pool ==
    << Null,
       Name(<<110>>),
       Dictionary(<<Entry(TypeKey, Name(ObjStm))>>),
       Stream(<<Entry(TypeKey, Name(XRef))>>, <<65>>),
       Dictionary(<<Entry(TypeKey, Name(Linearized))>>),
       Dictionary(<<Entry(TypeKey, Name(Page)),
                    Entry(ContentsKey, Reference(<<2, 0>>))>>),
       Stream(<<>>, <<65, 66>>) >>

\* the object ids a document may use: generation 0 of every id, and a
\* second generation of id 1
OidSpace == {<<id, 0>> : id \in 0..MaxId} \cup {<<1, 1>>}

\* the trailer of a document: empty for the empty document, and naming
\* its first object as Root otherwise
TrailerOf(oids) ==
    IF oids = {} THEN <<>>
    ELSE <<Entry(RootKey, Reference(OidsInOrder(oids)[1]))>>

RECURSIVE MaxOf(_)
MaxOf(ns) ==
    IF ns = {} THEN 0
    ELSE LET n == CHOOSE x \in ns : \A y \in ns : y <= x IN n

\* "1.5"
Version == <<49, 46, 53>>

InitSave ==
    /\ op = "save"
    /\ \E oids \in SUBSET OidSpace :
          /\ Cardinality(oids) <= MaxObjs
          /\ \E choice \in [oids -> 1..Len(Pool)] :
                arg = [objects |-> [oid \in oids |-> Pool[choice[oid]]],
                       trailer |-> TrailerOf(oids),
                       max_id |-> MaxOf({oid[1] : oid \in oids}),
                       version |-> Version]
    /\ pc = "header"
    /\ out = <<>>
    /\ bytes_written = 0
    /\ nwrites = 0
    /\ write_failed = FALSE
    /\ Idle

\* save_internal is running, entered from save (a file, which may fail a
\* write) or from save_to (here a Vec<u8>)
Saving == op \in {"save", "save_to"}

AfterWritesIgnoringErrors(fail, next) == next

\* the ? after a write: the handler goes on when every write succeeded and
\* returns the error otherwise
AfterWrites(fail, next) == IF fail = 0 THEN next ELSE "failed"

\* let mut xref = Xref::new(...); writeln!(target, "%PDF-{}", self.version)?;
\* let mut contents_map = Some(BTreeMap::new())
SaveHeader ==
    /\ Saving
    /\ pc = "header"
    /\ LET chunks == << <<37, 80, 68, 70, 45>> \o arg.version \o <<LF>> >> IN
       \E fail \in FailPoints(chunks) : \E partial \in Partials(chunks, fail) :
          /\ Sink(chunks, fail, partial)
          /\ pc' = AfterWrites(fail, "objects")
          /\ contents_map' = IF fail = 0 THEN SomeMap(EmptyMap) ELSE contents_map
          /\ idx' = IF fail = 0 THEN 1 ELSE idx
    /\ UNCHANGED <<outputs, op, arg, xref, xref_start, emitted, sections>>

\* one iteration of the object loop on an object that is skipped
SaveSkipObject ==
    /\ Saving
    /\ pc = "objects"
    /\ idx <= Cardinality(DOMAIN arg.objects)
    /\ Skipped(arg.objects[LoopOid(arg.objects, idx)])
    /\ idx' = idx + 1
    /\ UNCHANGED <<outputs, op, arg, pc, out, bytes_written, nwrites, write_failed, xref,
                   contents_map, xref_start, emitted, sections>>

\* one iteration of the object loop on an object that is written:
\* write_indirect_object(&mut target, oid, object, &mut xref, contents_map)?
SaveWriteObject ==
    /\ Saving
    /\ pc = "objects"
    /\ idx <= Cardinality(DOMAIN arg.objects)
    /\ LET oid == LoopOid(arg.objects, idx)
           object == arg.objects[oid]
           written == WriteIndirectObject(bytes_written, oid, object, contents_map)
       IN /\ ~Skipped(object)
          /\ xref' = XrefInsert(xref, oid[1], Normal(bytes_written, oid[2]))
          /\ \E fail \in FailPoints(written.chunks) :
             \E partial \in Partials(written.chunks, fail) :
                /\ Sink(written.chunks, fail, partial)
                /\ pc' = AfterWrites(fail, "objects")
                /\ contents_map' = IF fail = 0 THEN written.map ELSE contents_map
                /\ idx' = IF fail = 0 THEN idx + 1 ELSE idx
                /\ emitted' = IF fail = 0
                              THEN Append(emitted,
                                     [oid |-> oid, offset |-> Len(out),
                                      end |-> Len(out) + TotalLen(written.chunks)])
                              ELSE emitted
    /\ UNCHANGED <<outputs, op, arg, xref_start, sections>>

XrefStartAfterKeyword(count) == count + 5

\* let xref_start = target.bytes_written
XrefStart(count) == count

\* after the loop: let xref_start = target.bytes_written;
\* Writer::write_xref(&mut target, &xref)?
SaveXref ==
    /\ Saving
    /\ pc = "objects"
    /\ idx > Cardinality(DOMAIN arg.objects)
    /\ xref_start' = XrefStart(bytes_written)
    /\ LET chunks == WriteXrefChunks(xref) IN
       \E fail \in FailPoints(chunks) : \E partial \in Partials(chunks, fail) :
          /\ Sink(chunks, fail, partial)
          /\ pc' = AfterWrites(fail, "trailer")
          /\ sections' = IF fail = 0 THEN Sections(xref) ELSE sections
    /\ UNCHANGED <<outputs, op, arg, xref, contents_map, idx, emitted>>

\* write_trailer: self.trailer.set("Size", max_id + 1); "trailer\n"; the
\* trailer dictionary written with no object id and no Contents byte-map
SaveTrailer ==
    /\ Saving
    /\ pc = "trailer"
    /\ LET trailer == DictSet(arg.trailer, SizeKey, Integer(arg.max_id + 1))
           chunks == << <<116, 114, 97, 105, 108, 101, 114, LF>> >>
                     \o WriteDictionary(bytes_written + 8, trailer, NoOid, NoMap).chunks
       IN /\ arg' = [arg EXCEPT !.trailer = trailer]
          /\ \E fail \in FailPoints(chunks) : \E partial \in Partials(chunks, fail) :
                /\ Sink(chunks, fail, partial)
                /\ pc' = AfterWrites(fail, "footer")
    /\ UNCHANGED <<outputs, op, xref, contents_map, idx, xref_start, emitted, sections>>

\* write!(target, "\nstartxref\n{}\n%%EOF", xref_start)?; Ok(())
SaveFooter ==
    /\ Saving
    /\ pc = "footer"
    /\ LET chunks == << <<LF, 115, 116, 97, 114, 116, 120, 114, 101, 102, LF>>
                         \o Dec(xref_start)
                         \o <<LF, 37, 37, 69, 79, 70>> >>
       IN \E fail \in FailPoints(chunks) : \E partial \in Partials(chunks, fail) :
             /\ Sink(chunks, fail, partial)
             /\ pc' = AfterWrites(fail, "done")
    /\ UNCHANGED <<outputs, op, arg, xref, contents_map, idx, xref_start, emitted, sections>>

Next ==
    \/ SaveHeader
    \/ SaveSkipObject
    \/ SaveWriteObject
    \/ SaveXref
    \/ SaveTrailer
    \/ SaveFooter

Init == InitSave

Spec == Init /\ [][Next]_vars

-----------------------------------------------------------------------------
(* Several saves of one document with save_to, each into a new Vec<u8>.    *)

\* most saves of one document
MaxSaves == 2

\* a Size left in the trailer by whoever built the document
StaleSize == Entry(SizeKey, Integer(9))

\* the trailers a document may hold before its first save: without a Size,
\* or with a stale Size before or after its other keys
Trailers(oids) ==
    {TrailerOf(oids), <<StaleSize>> \o TrailerOf(oids), TrailerOf(oids) \o <<StaleSize>>}

InitTwice ==
    /\ op = "save_to"
    /\ \E oids \in SUBSET OidSpace :
          /\ Cardinality(oids) <= MaxObjs
          /\ \E choice \in [oids -> 1..Len(Pool)], trailer \in Trailers(oids) :
                arg = [objects |-> [oid \in oids |-> Pool[choice[oid]]],
                       trailer |-> trailer,
                       max_id |-> MaxOf({oid[1] : oid \in oids}),
                       version |-> Version]
    /\ pc = "header"
    /\ out = <<>>
    /\ bytes_written = 0
    /\ nwrites = 0
    /\ write_failed = FALSE
    /\ Idle

\* save_to called again on the document, with a new destination:
\* CountingWrite { inner: target, bytes_written: 0 }, Xref::new(...), and
\* further on a new contents_map
SaveAgain ==
    /\ op = "save_to"
    /\ pc = "done"
    /\ Len(outputs) + 1 < MaxSaves
    /\ outputs' = Append(outputs, out)
    /\ pc' = "header"
    /\ out' = <<>>
    /\ bytes_written' = 0
    /\ nwrites' = 0
    /\ write_failed' = FALSE
    /\ xref' = EmptyMap
    /\ contents_map' = NoMap
    /\ idx' = 0
    /\ xref_start' = 0
    /\ emitted' = <<>>
    /\ sections' = <<>>
    /\ UNCHANGED <<op, arg>>

NextTwice ==
    \/ SaveHeader
    \/ SaveSkipObject
    \/ SaveWriteObject
    \/ SaveXref
    \/ SaveTrailer
    \/ SaveFooter
    \/ SaveAgain

SpecTwice == InitTwice /\ [][NextTwice]_vars

-----------------------------------------------------------------------------
(* write_indirect_object on its own.                                       *)

\* deepest nesting of containers around a leaf object
MaxWrap == 3

\* b"A", a key that is not "Contents"
OtherKey == <<65>>

Leaves ==
    << Null,
       Name(<<110>>),
       Integer(-7),
       String(<<LP, 97>>, "Literal"),
       Reference(<<5, 0>>),
       Real(5) >>

\* the containers put around an object x
Wrap(w, x) ==
    CASE w = 1 -> Array(<<x>>)
      [] w = 2 -> Array(<<Integer(1), x>>)
      [] w = 3 -> Dictionary(<<Entry(ContentsKey, x)>>)
      [] w = 4 -> Dictionary(<<Entry(OtherKey, x)>>)
      [] w = 5 -> Dictionary(<<Entry(ContentsKey, x),
                               Entry(OtherKey,
                                     Dictionary(<<Entry(ContentsKey, Boolean(TRUE))>>))>>)
      [] w = 6 -> Stream(<<Entry(ContentsKey, x)>>, <<65, 66>>)

Wrappers == 1..6

RECURSIVE Build(_, _)
\* the leaf with the containers of ws around it, the first innermost
Build(leaf, ws) ==
    IF ws = <<>> THEN leaf
    ELSE Build(Wrap(Head(ws), leaf), Tail(ws))

\* the bytes written before the object: "%PDF-1.5\n"
Preamble == <<37, 80, 68, 70, 45, 49, 46, 53, LF>>

InitObject ==
    /\ op = "write_indirect_object"
    /\ \E leaf \in 1..Len(Leaves), n \in 0..MaxWrap, oid \in {<<3, 0>>, <<12, 1>>} :
       \E ws \in [1..n -> Wrappers] :
          arg = [oid |-> oid, object |-> Build(Leaves[leaf], ws)]
    /\ pc = "start"
    /\ out = Preamble
    /\ bytes_written = Len(Preamble)
    /\ nwrites = 0
    /\ write_failed = FALSE
    /\ xref = EmptyMap
    /\ contents_map = SomeMap(EmptyMap)
    /\ idx = 0
    /\ xref_start = 0
    /\ emitted = <<>>
    /\ sections = <<>>
    /\ outputs = <<>>

DoWriteIndirectObject ==
    /\ op = "write_indirect_object"
    /\ pc = "start"
    /\ LET written == WriteIndirectObject(bytes_written, arg.oid, arg.object,
                                          contents_map)
       IN /\ xref' = XrefInsert(xref, arg.oid[1], Normal(bytes_written, arg.oid[2]))
          /\ Sink(written.chunks, 0, 0)
          /\ contents_map' = written.map
          /\ emitted' = Append(emitted,
                               [oid |-> arg.oid, offset |-> Len(out),
                                end |-> Len(out) + TotalLen(written.chunks)])
    /\ pc' = "done"
    /\ UNCHANGED <<outputs, op, arg, idx, xref_start, sections>>

NextObject == DoWriteIndirectObject

SpecObject == InitObject /\ [][NextObject]_vars

-----------------------------------------------------------------------------
(* write_string on its own.                                                *)

\* "text((" CR ")" of the save_document test
TestString == <<116, 101, 120, 116, 40, 40, 13, 41>>

\* the bytes the Literal branch tells apart, and `r`, a byte it copies
StrAlphabet == {LP, RP, BSL, CR, 114}

StrInputs ==
    UNION {[1..n -> StrAlphabet] : n \in 0..MaxStrLen} \cup {TestString}

InitStr ==
    /\ op = "write_string"
    /\ \E text \in StrInputs, format \in {"Literal", "Hexadecimal"} :
          arg = [text |-> text, format |-> format]
    /\ Fresh
    /\ Idle

DoWriteString ==
    /\ op = "write_string"
    /\ pc = "start"
    /\ Sink(WriteStringChunks(arg.text, arg.format), 0, 0)
    /\ pc' = "done"
    /\ UNCHANGED <<outputs, op, arg, xref, contents_map, idx, xref_start, emitted, sections>>

NextStr == DoWriteString

SpecStr == InitStr /\ [][NextStr]_vars

-----------------------------------------------------------------------------
(* write_name on its own.                                                  *)

NameAlphabet == {97, SP, HASH, 200}

NameInputs ==
    {<<b>> : b \in 0..255}
    \cup UNION {[1..n -> NameAlphabet] : n \in 0..MaxNameLen}

InitName ==
    /\ op = "write_name"
    /\ arg \in NameInputs
    /\ Fresh
    /\ Idle

DoWriteName ==
    /\ op = "write_name"
    /\ pc = "start"
    /\ Sink(WriteNameChunks(arg), 0, 0)
    /\ pc' = "done"
    /\ UNCHANGED <<outputs, op, arg, xref, contents_map, idx, xref_start, emitted, sections>>

NextName == DoWriteName

SpecName == InitName /\ [][NextName]_vars

-----------------------------------------------------------------------------
(* Claims on the lexical encoder.                                          *)

\* C8 as stated: the literal string "text((" CR ")" is written as
\* (text\(\(\r\)), both "(" and the final ")" escaped
C8_TestStringEncoding ==
    (op = "write_string" /\ pc = "done"
        /\ arg.text = TestString /\ arg.format = "Literal")
    => out = <<40, 116, 101, 120, 116, 92, 40, 92, 40, 92, 114, 92, 41, 41>>

\* C8 amended: the literal string "text((" CR ")" is written as
\* (text\((\r)): the second "(" and the final ")" are a balanced pair and
\* stay unescaped, the first "(" and the CR are escaped
C8_TestStringEncodingAmended ==
    (op = "write_string" /\ pc = "done"
        /\ arg.text = TestString /\ arg.format = "Literal")
    => out = <<40, 116, 101, 120, 116, 92, 40, 40, 92, 114, 41, 41>>

C8_Witness ==
    /\ op = "write_string" /\ pc = "done"
    /\ arg.text = TestString /\ arg.format = "Literal"
    /\ Len(out) = 12

RECURSIVE Depth(_, _)
\* the number of "(" still open after the first k bytes of text, a ")"
\* met with none open closing nothing
Depth(text, k) ==
    IF k = 0 THEN 0
    ELSE IF text[k] = LP THEN Depth(text, k - 1) + 1
    ELSE IF text[k] = RP /\ Depth(text, k - 1) > 0 THEN Depth(text, k - 1) - 1
    ELSE Depth(text, k - 1)

\* the "(" at i is never closed: the depth never falls below its own level
UnmatchedOpen(text, i) ==
    /\ text[i] = LP
    /\ \A j \in i..Len(text) : Depth(text, j) >= Depth(text, i)

\* the ")" at i is met while no "(" is open
UnmatchedClose(text, i) == text[i] = RP /\ Depth(text, i - 1) = 0

MustEscape(text, i) ==
    \/ text[i] = BSL
    \/ text[i] = CR
    \/ UnmatchedOpen(text, i)
    \/ UnmatchedClose(text, i)

RECURSIVE ExpectedLiteral(_, _)
ExpectedLiteral(text, i) ==
    IF i > Len(text) THEN <<>>
    ELSE (IF MustEscape(text, i)
          THEN <<BSL, IF text[i] = CR THEN 114 ELSE text[i]>>
          ELSE <<text[i]>>)
         \o ExpectedLiteral(text, i + 1)

\* C9: the literal-string encoder escapes exactly every ")" met with no "("
\* open, every "(" never closed, every backslash and every CR; CR becomes
\* backslash r, any other escaped byte backslash + itself, all other bytes
\* are copied, and the whole is wrapped in one "(" and one ")"
C9_LiteralEscapesExactly ==
    (op = "write_string" /\ pc = "done" /\ arg.format = "Literal")
    => out = <<LP>> \o ExpectedLiteral(arg.text, 1) \o <<RP>>

\* a string with a balanced pair, an unmatched open and an unmatched close
C9_Witness ==
    /\ op = "write_string" /\ pc = "done" /\ arg.format = "Literal"
    /\ arg.text = <<RP, LP, RP, LP>>
    /\ out = <<LP, BSL, RP, LP, RP, BSL, LP, RP>>

UpperHex == <<48, 49, 50, 51, 52, 53, 54, 55, 56, 57, 65, 66, 67, 68, 69, 70>>

\* space, tab, LF, CR, FF, ( ) < > [ ] { } / % #
DelimiterSet == {32, 9, 10, 13, 12, 40, 41, 60, 62, 91, 93, 123, 125, 47, 37, 35}

ExpectedNameByte(b) ==
    IF b \in DelimiterSet \/ b < 33 \/ b > 126
    THEN <<HASH, UpperHex[(b \div 16) + 1], UpperHex[(b % 16) + 1]>>
    ELSE <<b>>

RECURSIVE ExpectedName(_)
ExpectedName(name) ==
    IF name = <<>> THEN <<>>
    ELSE ExpectedNameByte(Head(name)) \o ExpectedName(Tail(name))

\* C10: write_name writes "/" and then each byte as "#" + two uppercase hex
\* digits iff it is a delimiter or white-space byte or lies outside
\* [33,126], and unchanged otherwise; the empty name gives "/"
C10_NameEscaping ==
    (op = "write_name" /\ pc = "done")
    => /\ out = <<SLASH>> \o ExpectedName(arg)
       /\ out[1] = SLASH
       /\ (arg = <<>> => out = <<SLASH>>)

\* a byte above 126 written as #C8
C10_Witness ==
    /\ op = "write_name" /\ pc = "done"
    /\ arg = <<200>>
    /\ out = <<SLASH, HASH, 67, 56>>

-----------------------------------------------------------------------------
(* Claims on the cross-reference table.                                    *)

\* the ids a subsection covers: start .. start + count - 1
Covered(s) == s.start..(s.start + s.len - 1)

\* the id whose entry stands at position p (from 0) of a subsection, -1
\* for the synthetic free head
AtPosition(s, p) ==
    IF s.start = 0
    THEN (IF p = 0 THEN -1 ELSE s.ids[p])
    ELSE s.ids[p + 1]

\* the number of synthetic free heads written
Heads == Cardinality({i \in 1..Len(sections) : sections[i].start = 0})

\* the ids of a subsection are a maximal run of consecutive present ids
MaximalRun(s, present) ==
    /\ \A k \in 1..Len(s.ids) : s.ids[k] = s.ids[1] + k - 1
    /\ s.ids # <<>> =>
        /\ (s.ids[1] - 1) \notin present
        /\ (s.ids[Len(s.ids)] + 1) \notin present

\* C2: the subsections written by write_xref are the maximal runs of
\* consecutive present ids and partition the id set: every present id is
\* covered by exactly one subsection, at position id - start; no absent id
\* is covered; the synthetic free head is the only extra entry and appears
\* once, in the subsection with start 0; ids {1,2,3,9} give `0 4`, `9 1`
C2_XrefPartition ==
    (op = "write_xref" /\ pc = "done") =>
        LET present == DOMAIN xref IN
        /\ \A id \in present :
              /\ Cardinality({i \in 1..Len(sections) : id \in Covered(sections[i])}) = 1
              /\ \A i \in 1..Len(sections) :
                    id \in Covered(sections[i])
                    => AtPosition(sections[i], id - sections[i].start) = id
        /\ \A i \in 1..Len(sections) :
              \A p \in 0..(sections[i].len - 1) :
                 \/ AtPosition(sections[i], p) = -1
                 \/ (sections[i].start + p) \in present
        /\ \A i \in 1..Len(sections) : MaximalRun(sections[i], present)
        /\ Heads = 1
        /\ (present = {1, 2, 3, 9} =>
              /\ Len(sections) = 2
              /\ sections[1].start = 0 /\ sections[1].len = 4
              /\ sections[2].start = 9 /\ sections[2].len = 1)

\* the same statement for the id sets that do not hold id 0
C2_XrefPartitionWithoutIdZero ==
    (0 \notin DOMAIN xref) => C2_XrefPartition

-----------------------------------------------------------------------------
(* Claims on save and on write_indirect_object.                            *)

\* the bytes of seq from offset start (from 0) up to, not including, end
Slice(seq, start, end) == SubSeq(seq, start + 1, end)

\* "{id} {gen} obj"
IndirectHeader(oid) ==
    Dec(oid[1]) \o <<SP>> \o Dec(oid[2]) \o <<SP, 111, 98, 106>>

\* the object is a Dictionary or a Stream whose Type is the Name ObjStm,
\* XRef or Linearized
SelfManaged(object) ==
    /\ object.t \in {"Dictionary", "Stream"}
    /\ \E i \in 1..Len(object.dict) :
          /\ object.dict[i].key = <<84, 121, 112, 101>>
          /\ object.dict[i].value.t = "Name"
          /\ \/ object.dict[i].value.name = <<79, 98, 106, 83, 116, 109>>
             \/ object.dict[i].value.name = <<88, 82, 101, 102>>
             \/ object.dict[i].value.name = <<76, 105, 110, 101, 97, 114, 105, 122, 101, 100>>

\* the xref index holds, for the object oid, a Normal entry with its
\* generation and the offset at which its header was written
Indexed(oid) ==
    /\ oid[1] \in DOMAIN xref
    /\ xref[oid[1]].kind = "Normal"
    /\ xref[oid[1]].b = oid[2]
    /\ \E k \in 1..Len(emitted) :
          /\ emitted[k].oid = oid
          /\ emitted[k].offset = xref[oid[1]].a
    /\ xref[oid[1]].a + Len(IndirectHeader(oid)) <= Len(out)
    /\ Slice(out, xref[oid[1]].a, xref[oid[1]].a + Len(IndirectHeader(oid)))
          = IndirectHeader(oid)

\* C1: after a successful save, for every object (id, gen) that is not
\* skipped the xref index holds under id a Normal entry of generation gen
\* whose offset is the number of bytes written before the object's
\* "{id} {gen} obj" header, for any object table
C1_XrefIndexesEveryObject ==
    (op = "save" /\ pc = "done") =>
        \A oid \in DOMAIN arg.objects :
            ~SelfManaged(arg.objects[oid]) => Indexed(oid)

\* the statement of C1 for the object tables whose numeric ids are distinct
C1_XrefIndexesDistinctIds ==
    (op = "save" /\ pc = "done"
        /\ \A a, b \in DOMAIN arg.objects : a[1] = b[1] => a = b)
    => \A oid \in DOMAIN arg.objects :
            ~SelfManaged(arg.objects[oid]) => Indexed(oid)

RECURSIVE ContentsValues(_)
RECURSIVE ContentsValuesOfItems(_, _)
RECURSIVE ContentsValuesOfDict(_, _)

ContentsValuesOfItems(items, i) ==
    IF i > Len(items) THEN <<>>
    ELSE ContentsValues(items[i]) \o ContentsValuesOfItems(items, i + 1)

ContentsValuesOfDict(dict, i) ==
    IF i > Len(dict) THEN <<>>
    ELSE ContentsValues(dict[i].value)
         \o (IF dict[i].key = <<67, 111, 110, 116, 101, 110, 116, 115>>
             THEN <<dict[i].value>> ELSE <<>>)
         \o ContentsValuesOfDict(dict, i + 1)

\* the values held under a "Contents" key anywhere inside an object, in
\* the order in which their serialization ends
ContentsValues(object) ==
    CASE object.t = "Array" -> ContentsValuesOfItems(object.items, 1)
      [] object.t \in {"Dictionary", "Stream"} -> ContentsValuesOfDict(object.dict, 1)
      [] OTHER -> <<>>

\* the Contents byte-map holds under oid a span of the output whose bytes
\* are the bytes written for value
SpanIs(oid, value) ==
    /\ contents_map.some
    /\ oid \in DOMAIN contents_map.m
    /\ LET span == contents_map.m[oid] IN
       /\ 0 <= span[1] /\ span[1] <= span[2] /\ span[2] <= Len(out)
       /\ Slice(out, span[1], span[2]) = ObjectBytes(value)

\* C3 as stated: for every "Contents" key at any depth inside an indirect
\* object, the map holds under the object's id a span whose bytes are
\* exactly the bytes written for that key's value
C3_EveryContentsValueSpan ==
    (op = "write_indirect_object" /\ pc = "done") =>
        LET values == ContentsValues(arg.object) IN
        \A k \in 1..Len(values) : SpanIs(arg.oid, values[k])

\* C3 amended: when an indirect object holds a "Contents" key at any
\* depth, the map holds under the object's id one span, and its bytes are
\* exactly the bytes written for the value of the "Contents" key whose
\* value was written last: the key, the separator before the value and the
\* bytes after it are excluded
C3_LastContentsValueSpan ==
    (op = "write_indirect_object" /\ pc = "done") =>
        LET values == ContentsValues(arg.object) IN
        values # <<>> => SpanIs(arg.oid, values[Len(values)])

\* an object with two "Contents" keys, the last value one that takes a
\* separator
C3_Witness ==
    /\ op = "write_indirect_object" /\ pc = "done"
    /\ LET values == ContentsValues(arg.object) IN
       /\ Len(values) >= 2
       /\ values[Len(values)].t = "Boolean"
       /\ SpanIs(arg.oid, values[Len(values)])

\* "%PDF-{version}\n"
HeaderLen == 5 + Len(arg.version) + 1

\* the length of the output when the last indirect object has been written
AfterObjects == IF emitted = <<>> THEN HeaderLen ELSE emitted[Len(emitted)].end

\* "\nstartxref\n{n}\n%%EOF"
Footer(n) ==
    <<LF, 115, 116, 97, 114, 116, 120, 114, 101, 102, LF>> \o Dec(n)
    \o <<LF, 37, 37, 69, 79, 70>>

\* C4: after a successful save the number after "startxref" is the number
\* of bytes written before the "xref" keyword, taken after the last
\* indirect object, the output there begins with "xref", and nothing
\* follows "%%EOF"
C4_StartxrefOffset ==
    (op = "save" /\ pc = "done") =>
        /\ Len(out) >= AfterObjects + 4 + Len(Footer(AfterObjects))
        /\ Slice(out, Len(out) - Len(Footer(AfterObjects)), Len(out))
              = Footer(AfterObjects)
        /\ Slice(out, AfterObjects, AfterObjects + 4) = <<120, 114, 101, 102>>

C4_Witness ==
    /\ op = "save" /\ pc = "done"
    /\ Len(emitted) = 2
    /\ Slice(out, AfterObjects, AfterObjects + 4) = <<120, 114, 101, 102>>

\* C5 as stated: of two objects emitted one after the other, the later
\* has the strictly greater numeric id
C5_StrictlyAscendingIds ==
    op = "save" =>
        \A k \in 1..(Len(emitted) - 1) : emitted[k].oid[1] < emitted[k + 1].oid[1]

\* C5 amended: of two objects emitted one after the other, the later has
\* the greater (id, generation) pair: a greater numeric id, or the same
\* numeric id and a greater generation
C5_AscendingObjectIds ==
    op = "save" =>
        \A k \in 1..(Len(emitted) - 1) :
            \/ emitted[k].oid[1] < emitted[k + 1].oid[1]
            \/ /\ emitted[k].oid[1] = emitted[k + 1].oid[1]
               /\ emitted[k].oid[2] < emitted[k + 1].oid[2]

\* two generations of one numeric id emitted one after the other
C5_Witness ==
    /\ op = "save"
    /\ Len(emitted) = 2
    /\ emitted[1].oid[1] = emitted[2].oid[1]
    /\ emitted[1].oid[2] < emitted[2].oid[2]

\* the object loop stands on an object that is to be skipped
AtSelfManaged ==
    /\ op = "save" /\ pc = "objects"
    /\ idx <= Cardinality(DOMAIN arg.objects)
    /\ SelfManaged(arg.objects[OidsInOrder(DOMAIN arg.objects)[idx]])

\* at the end of a save every object to skip was emitted no time, every
\* other once, as "{id} {gen} obj" ... "endobj\n"
EmittedOnce ==
    (op = "save" /\ pc = "done") =>
        \A oid \in DOMAIN arg.objects :
            LET ks == {k \in 1..Len(emitted) : emitted[k].oid = oid} IN
            IF SelfManaged(arg.objects[oid]) THEN ks = {}
            ELSE /\ Cardinality(ks) = 1
                 /\ \A k \in ks :
                       /\ emitted[k].end <= Len(out)
                       /\ Slice(out, emitted[k].offset,
                                emitted[k].offset + Len(IndirectHeader(oid)))
                             = IndirectHeader(oid)
                       /\ Slice(out, emitted[k].end - 7, emitted[k].end)
                             = <<101, 110, 100, 111, 98, 106, LF>>

\* C6: an object whose type name is ObjStm, XRef or Linearized leaves the
\* output, the byte counter and the xref map unchanged, and every other
\* object, also one with no type name, is emitted exactly once
C6_SkipsSelfManagedObjects ==
    /\ []EmittedOnce
    /\ [][AtSelfManaged =>
            /\ out' = out
            /\ bytes_written' = bytes_written
            /\ nwrites' = nwrites
            /\ xref' = xref
            /\ emitted' = emitted]_vars

\* a finished save of a table with a skipped and a written object
C6_Witness ==
    /\ op = "save" /\ pc = "done"
    /\ Len(emitted) = 1
    /\ Cardinality(DOMAIN arg.objects) = 2
    /\ arg.objects[emitted[1].oid].t = "Null"

-----------------------------------------------------------------------------
(* Claims on the whole output of a save.                                   *)

\* "%PDF-{version}\n"
HeaderLine == <<37, 80, 68, 70, 45>> \o arg.version \o <<LF>>

\* "xref\n0 1\n0000000000 65535 f \n"
EmptyXrefTable ==
    <<120, 114, 101, 102, 10, 48, 32, 49, 10,
      48, 48, 48, 48, 48, 48, 48, 48, 48, 48, 32, 54, 53, 53, 51, 53, 32, 102, 32, 10>>

\* a finished save of the empty document: no objects, max_id = 0, and a
\* trailer that holds nothing but the Size the save has set
EmptyDocumentSaved ==
    /\ op = "save" /\ pc = "done"
    /\ DOMAIN arg.objects = {}
    /\ arg.max_id = 0
    /\ Len(arg.trailer) = 1
    /\ arg.trailer[1].key = <<83, 105, 122, 101>>

\* C11 as stated: the empty document is saved as the header line, the
\* table "xref\n0 1\n0000000000 65535 f \n", "trailer\n<< /Size 1 >>" with
\* spaces inside the dictionary brackets, and the footer carrying the
\* length of the header line
C11_EmptyDocumentSpaced ==
    EmptyDocumentSaved =>
        out = HeaderLine \o EmptyXrefTable
              \o <<116, 114, 97, 105, 108, 101, 114, 10>>
              \o <<60, 60, 32, 47, 83, 105, 122, 101, 32, 49, 32, 62, 62>>
              \o Footer(Len(HeaderLine))

\* C11 amended: the empty document is saved as the header line, the table
\* "xref\n0 1\n0000000000 65535 f \n", "trailer\n<</Size 1>>" with no space
\* after "<<" or before ">>", and the footer carrying the length of the
\* header line
C11_EmptyDocumentOutput ==
    EmptyDocumentSaved =>
        out = HeaderLine \o EmptyXrefTable
              \o <<116, 114, 97, 105, 108, 101, 114, 10>>
              \o <<60, 60, 47, 83, 105, 122, 101, 32, 49, 62, 62>>
              \o Footer(Len(HeaderLine))

\* the empty document saved, its output holding the table and the footer
C11_Witness ==
    /\ EmptyDocumentSaved
    /\ Len(out) = Len(HeaderLine) + Len(EmptyXrefTable) + 19 + Len(Footer(Len(HeaderLine)))
    /\ emitted = <<>>

-----------------------------------------------------------------------------
(* Claims on the Document across saves.                                    *)

\* two objects of one variant with the same serialization
SameObject(a, b) == a.t = b.t /\ ObjectBytes(a) = ObjectBytes(b)

\* two dictionaries with the same keys and values in the same order
SameDict(a, b) ==
    /\ Len(a) = Len(b)
    /\ \A i \in 1..Len(a) : a[i].key = b[i].key /\ SameObject(a[i].value, b[i].value)

\* the entries of a dictionary under a key other than "Size"
NotSize(dict) == SelectSeq(dict, LAMBDA e : e.key # <<83, 105, 122, 101>>)

\* the dictionary holds "Size" once, as the Integer n
SizeIs(dict, n) ==
    /\ Cardinality({i \in 1..Len(dict) : dict[i].key = <<83, 105, 122, 101>>}) = 1
    /\ \A i \in 1..Len(dict) :
          dict[i].key = <<83, 105, 122, 101>>
          => dict[i].value.t = "Integer" /\ dict[i].value.int = n

\* part occurs in seq at offset i (from 0)
OccursAt(seq, part, i) ==
    i + Len(part) <= Len(seq) /\ Slice(seq, i, i + Len(part)) = part

\* "trailer\n"
TrailerKeyword == <<116, 114, 97, 105, 108, 101, 114, 10>>

\* the output ends with "trailer\n" and a dictionary that holds
\* "/Size {n}"
TrailerWrittenWithSize(n) ==
    \E i \in 0..Len(out) :
        /\ OccursAt(out, TrailerKeyword, i)
        /\ \E j \in (i + 8)..Len(out) :
              OccursAt(out, <<47, 83, 105, 122, 101, 32>> \o Dec(n), j)
        /\ Slice(out, i + 8, Len(out)) = ObjectBytes(Dictionary(arg.trailer))

\* C12: a save changes the Document in one way only: the step that writes
\* the trailer, taken after the cross-reference table is written, sets the
\* trailer's Size to max_id + 1 and the trailer it writes carries that
\* value; the object table, the version, max_id and the other keys of the
\* trailer are the same after every step of the save
C12_SaveChangesOnlySize ==
    /\ [][Saving =>
            /\ arg'.objects = arg.objects
            /\ arg'.version = arg.version
            /\ arg'.max_id = arg.max_id
            /\ SameDict(NotSize(arg.trailer), NotSize(arg'.trailer))
            /\ (pc # "trailer" => SameDict(arg.trailer, arg'.trailer))
            /\ (pc = "trailer" =>
                    /\ SizeIs(arg'.trailer, arg.max_id + 1)
                    /\ sections # <<>>)]_vars
    /\ [](Saving /\ pc \in {"footer", "done"} => SizeIs(arg.trailer, arg.max_id + 1))
    /\ [](Saving /\ pc = "footer" => TrailerWrittenWithSize(arg.max_id + 1))

\* a first save finished on a document whose trailer held a stale Size
\* before its Root: the Size is now max_id + 1 and the Root is kept
C12_Witness ==
    /\ op = "save_to" /\ pc = "done" /\ outputs = <<>>
    /\ arg.max_id = 2
    /\ Len(arg.trailer) = 2
    /\ arg.trailer[1].key = <<83, 105, 122, 101>>
    /\ arg.trailer[1].value.int = 3
    /\ arg.trailer[2].key = <<82, 111, 111, 116>>

\* C13: a later save of the same document into a fresh destination writes
\* byte for byte what every earlier save wrote; the xref map, the Contents
\* byte-map, the byte counter and the Size left in the trailer by the
\* earlier save change nothing
C13_SavesAreReproducible ==
    (op = "save_to" /\ pc = "done") =>
        \A k \in 1..Len(outputs) : outputs[k] = out

\* a second save finished on a document with two emitted objects, whose
\* trailer got its Size from the first save
C13_Witness ==
    /\ op = "save_to" /\ pc = "done"
    /\ Len(outputs) = 1
    /\ outputs[1] = out
    /\ Len(emitted) = 2
    /\ arg.trailer[Len(arg.trailer)].key = <<83, 105, 122, 101>>
    /\ xref_start > 9

-----------------------------------------------------------------------------
(* write_xref_entry on its own.                                            *)

RECURSIVE Pow10(_)
Pow10(k) == IF k = 0 THEN 1 ELSE 10 * Pow10(k - 1)

\* offsets of every decimal width from 1 to 10 digits, up to the largest
\* integer TLC holds (2^31 - 1, ten digits like 2^32 - 1)
EntryOffsets ==
    {0, 2147483647}
    \cup {Pow10(k) : k \in 0..9}
    \cup {Pow10(k) - 1 : k \in 1..9}
    \cup {20 * id : id \in 1..MaxXrefId}

\* generations of every decimal width from 1 to 5 digits, up to u16::MAX
EntryGenerations ==
    {0, 65535} \cup {Pow10(k) : k \in 0..4} \cup {Pow10(k) - 1 : k \in 1..4}

InitEntry ==
    /\ op = "write_xref_entry"
    /\ \E offset \in EntryOffsets, generation \in EntryGenerations :
          \/ arg = [offset |-> offset, generation |-> generation, kind |-> 110]
          \/ /\ offset = 0 /\ generation = 65535
             /\ arg = [offset |-> 0, generation |-> 65535, kind |-> 102]
    /\ Fresh
    /\ Idle

\* write_xref_entry(offset, generation, kind)
DoWriteXrefEntry ==
    /\ op = "write_xref_entry"
    /\ pc = "start"
    /\ Sink(XrefEntryChunks(arg.offset, arg.generation, arg.kind), 0, 0)
    /\ pc' = "done"
    /\ UNCHANGED <<outputs, op, arg, xref, contents_map, idx, xref_start, emitted, sections>>

NextEntry == DoWriteXrefEntry

SpecEntry == InitEntry /\ [][NextEntry]_vars

-----------------------------------------------------------------------------
(* Claims on the entry lines of the cross-reference table.                 *)

RECURSIVE DigitsValue(_)
\* the number written by a sequence of decimal digits
DigitsValue(digits) ==
    IF digits = <<>> THEN 0
    ELSE 10 * DigitsValue(SubSeq(digits, 1, Len(digits) - 1))
         + (digits[Len(digits)] - 48)

AllDigits(bytes) == \A i \in 1..Len(bytes) : bytes[i] \in 48..57

\* the first 19 bytes of the line: ten digits giving the offset, a space,
\* five digits giving the generation, a space, the type character `n` or
\* `f`, a space
EntryLayout ==
    /\ Len(out) >= 19
    /\ AllDigits(SubSeq(out, 1, 10))
    /\ DigitsValue(SubSeq(out, 1, 10)) = arg.offset
    /\ out[11] = 32
    /\ AllDigits(SubSeq(out, 12, 16))
    /\ DigitsValue(SubSeq(out, 12, 16)) = arg.generation
    /\ out[17] = 32
    /\ out[18] = arg.kind /\ out[18] \in {110, 102}
    /\ out[19] = 32

\* C14 as stated: the content of an entry line, the laid-out fields up to
\* the trailing space, is 20 bytes, and the line terminator follows it
C14_EntryContentIs20Bytes ==
    (op = "write_xref_entry" /\ pc = "done") =>
        /\ EntryLayout
        /\ out[Len(out)] = 10
        /\ Len(out) - 1 = 20

\* C14 amended: an entry line is 20 bytes with its line terminator: 19
\* bytes of content (10-digit zero-padded offset, space, 5-digit
\* zero-padded generation, space, `n` or `f`, space) and one LF
C14_EntryLineIs20Bytes ==
    (op = "write_xref_entry" /\ pc = "done") =>
        /\ EntryLayout
        /\ Len(out) = 20
        /\ out[20] = 10

\* the line of the largest generation and a ten-digit offset
C14_Witness ==
    /\ op = "write_xref_entry" /\ pc = "done"
    /\ arg.offset = 2147483647 /\ arg.generation = 65535 /\ arg.kind = 110
    /\ out = <<50, 49, 52, 55, 52, 56, 51, 54, 52, 55, 32, 54, 53, 53, 51, 53, 32, 110, 32, 10>>

-----------------------------------------------------------------------------
(* Claims on the counts of the cross-reference subsections.                *)

\* "{start} {count}\n"
SectionHeader(s) == Dec(s.start) \o <<32>> \o Dec(s.len) \o <<10>>

\* the 20 bytes at pos are an entry line: digits, spaces, `n` or `f`, LF
IsEntryLine(pos) ==
    /\ pos + 20 <= Len(out)
    /\ LET line == Slice(out, pos, pos + 20) IN
       /\ AllDigits(SubSeq(line, 1, 10))
       /\ line[11] = 32
       /\ AllDigits(SubSeq(line, 12, 16))
       /\ line[17] = 32
       /\ line[18] \in {110, 102}
       /\ line[19] = 32
       /\ line[20] = 10

RECURSIVE ClassicTableFrom(_, _)
\* from pos on, the output is the subsections i, i + 1, ..: each the
\* header `{start} {count}` followed by exactly count entry lines
ClassicTableFrom(pos, i) ==
    IF i > Len(sections) THEN pos = Len(out)
    ELSE LET head == SectionHeader(sections[i]) IN
         /\ OccursAt(out, head, pos)
         /\ \A k \in 0..(sections[i].len - 1) : IsEntryLine(pos + Len(head) + 20 * k)
         /\ ClassicTableFrom(pos + Len(head) + 20 * sections[i].len, i + 1)

RECURSIVE CountsBefore(_)
\* the sum of the counts declared by the subsections before the i-th
CountsBefore(i) == IF i <= 1 THEN 0 ELSE CountsBefore(i - 1) + sections[i - 1].len

RECURSIVE HeadersBefore(_)
\* the bytes of the headers of the subsections up to the i-th
HeadersBefore(i) ==
    IF i < 1 THEN 0 ELSE HeadersBefore(i - 1) + Len(SectionHeader(sections[i]))

\* the place (from 0) among all entries of the k-th id of subsection i
EntryIndex(i, k) ==
    CountsBefore(i) + (IF sections[i].start = 0 THEN k ELSE k - 1)

\* "0000000000 65535 f \n"
FreeLine ==
    <<48, 48, 48, 48, 48, 48, 48, 48, 48, 48, 32, 54, 53, 53, 51, 53, 32, 102, 32, 10>>

\* every Free entry stands at its place as offset 0, generation 65535 and
\* type `f` (classic) or type byte 0 (stream)
FreeEntriesEmitted ==
    \A i \in 1..Len(sections) : \A k \in 1..Len(sections[i].ids) :
        xref[sections[i].ids[k]].kind = "Free" =>
            IF op = "write_xref"
            THEN OccursAt(out, FreeLine, 5 + HeadersBefore(i) + 20 * EntryIndex(i, k))
            ELSE OccursAt(out, <<0, 0, 0, 0, 0, 255, 255>>, 7 * EntryIndex(i, k))

\* the counts declared are the counts emitted
CountsMatchEmitted ==
    IF op = "write_xref"
    THEN /\ OccursAt(out, <<120, 114, 101, 102, 10>>, 0)
         /\ ClassicTableFrom(5, 1)
    ELSE Len(out) = 7 * CountsBefore(Len(sections) + 1)

\* C15: for any xref map of Normal, Compressed and Free entries, every
\* subsection's declared count is the number of entries emitted for it: in
\* the classic table each header is followed by exactly count entry
\* lines, in the stream variant the blob is 7 bytes times the sum of the
\* counts; and a Free entry is emitted as offset 0, generation 65535, type
\* `f` (type byte 0 in the stream variant)
C15_DeclaredCountsAreEmitted ==
    (op \in {"write_xref", "write_xref_stream"} /\ pc = "done") =>
        /\ CountsMatchEmitted
        /\ FreeEntriesEmitted

\* the statement of C15 for the maps that hold Normal entries only
C15_CountsOfNormalEntries ==
    (\A id \in DOMAIN xref : xref[id].kind = "Normal") => C15_DeclaredCountsAreEmitted

\* the statement of C15 on the counts of the stream variant for the maps
\* that hold no Free entry
C15_StreamCountsWithoutFree ==
    (op = "write_xref_stream" /\ pc = "done"
        /\ \A id \in DOMAIN xref : xref[id].kind # "Free")
    => CountsMatchEmitted

-----------------------------------------------------------------------------
(* Claims on the separators around values.                                 *)

\* the variants that take a space before them, and before "endobj"
LeadingKinds == {"Null", "Boolean", "Integer", "Real", "Reference"}
TrailingKinds == {"Null", "Boolean", "Integer", "Real", "Name", "Reference", "Stream"}

RECURSIVE WellSeparated(_, _, _)
RECURSIVE ItemsSeparated(_, _, _)
RECURSIVE EntriesSeparated(_, _, _)

\* the value stands at offset pos of the output (opening: as the first
\* element of an array), with the byte before it as C16 says: for a Null,
\* Boolean, Integer, Real or Reference the "[" of its array or one space,
\* for any other variant no space; and so for the values inside it
WellSeparated(value, pos, opening) ==
    /\ pos >= 1
    /\ OccursAt(out, ObjectBytes(value), pos)
    /\ IF value.t \in LeadingKinds
       THEN IF opening THEN out[pos] = 91
            ELSE out[pos] = 32 /\ pos >= 2 /\ out[pos - 1] # 32
       ELSE out[pos] # 32
    /\ CASE value.t = "Array" -> ItemsSeparated(value.items, 1, pos + 1)
         [] value.t \in {"Dictionary", "Stream"} -> EntriesSeparated(value.dict, 1, pos + 2)
         [] OTHER -> TRUE

\* the elements of an array from the k-th on, the k-th with its separator
\* beginning at offset pos, up to the closing "]"
ItemsSeparated(items, k, pos) ==
    IF k > Len(items) THEN OccursAt(out, <<93>>, pos)
    ELSE LET start == pos + (IF k > 1 /\ items[k].t \in LeadingKinds THEN 1 ELSE 0) IN
         /\ WellSeparated(items[k], start, k = 1)
         /\ ItemsSeparated(items, k + 1, start + Len(ObjectBytes(items[k])))

\* the entries of a dictionary from the k-th on, the k-th key beginning at
\* offset pos, up to the closing ">>"
EntriesSeparated(dict, k, pos) ==
    IF k > Len(dict) THEN OccursAt(out, <<62, 62>>, pos)
    ELSE LET key == ObjectBytes(Name(dict[k].key))
             start == pos + Len(key)
                      + (IF dict[k].value.t \in LeadingKinds THEN 1 ELSE 0)
         IN /\ OccursAt(out, key, pos)
            /\ WellSeparated(dict[k].value, start, FALSE)
            /\ EntriesSeparated(dict, k + 1, start + Len(ObjectBytes(dict[k].value)))

\* "endobj\n"
EndObj == <<101, 110, 100, 111, 98, 106, 10>>

\* C16: in an indirect object and the arrays and dictionaries inside it, a
\* Null, Boolean, Integer, Real or Reference value is preceded by one
\* space or by the "[" of its array, never by a key, by "obj" or by the
\* last byte of the element before it; the object of an indirect object
\* that is a Null, Boolean, Integer, Real, Name, Reference or Stream is
\* followed by one space before "endobj"; the other variants get no
\* separator
C16_NoValueIsGlued ==
    (op = "write_indirect_object" /\ pc = "done") =>
        LET head == IndirectHeader(arg.oid)
            start == Len(Preamble) + Len(head)
                     + (IF arg.object.t \in LeadingKinds THEN 1 ELSE 0)
            end == start + Len(ObjectBytes(arg.object))
        IN /\ OccursAt(out, head, Len(Preamble))
           /\ WellSeparated(arg.object, start, FALSE)
           /\ IF arg.object.t \in TrailingKinds
              THEN /\ OccursAt(out, <<32>> \o EndObj, end)
                   /\ out[end] # 32
                   /\ Len(out) = end + 8
              ELSE /\ OccursAt(out, EndObj, end)
                   /\ out[end] # 32
                   /\ Len(out) = end + 7

\* an array whose second element is a Reference, inside a dictionary
\* inside a stream's dictionary: "12 1 obj<</Contents<</A[1 5 0 R]>>>>stream"
C16_Witness ==
    /\ op = "write_indirect_object" /\ pc = "done"
    /\ arg.oid = <<12, 1>>
    /\ arg.object.t = "Stream"
    /\ OccursAt(out, <<49, 50, 32, 49, 32, 111, 98, 106, 60, 60, 47, 67, 111, 110,
                       116, 101, 110, 116, 115, 60, 60, 47, 65, 91, 49, 32, 53, 32,
                       48, 32, 82, 93, 62, 62, 62, 62, 115, 116, 114, 101, 97, 109>>,
                Len(Preamble))
    /\ OccursAt(out, <<101, 110, 100, 115, 116, 114, 101, 97, 109, 32>> \o EndObj,
                Len(out) - 17)

-----------------------------------------------------------------------------
(* CountingWrite on its own: write and write_all calls on a destination    *)
(* that may take a part of a buffer or fail.                               *)

\* most calls made on the sink
MaxCalls == 3

\* b"ABC"
TestBuffer == <<65, 66, 67>>

\* the buffers handed to the sink: the prefixes of TestBuffer
SinkBuffers == {SubSeq(TestBuffer, 1, n) : n \in 0..Len(TestBuffer)}

InitSink ==
    /\ op = "sink"
    /\ arg = <<>>
    /\ pc = "open"
    /\ out = <<>>
    /\ bytes_written = 0
    /\ nwrites = 0
    /\ write_failed = FALSE
    /\ Idle

\* CountingWrite::write: let result = self.inner.write(buffer); the counter
\* grows by the number the destination returned, and by nothing on an Err
SinkWrite ==
    /\ op = "sink"
    /\ nwrites < MaxCalls
    /\ \E buffer \in SinkBuffers :
          /\ arg' = Append(arg, [call |-> "write", buffer |-> buffer])
          /\ \/ \E bytes \in 0..Len(buffer) :
                   /\ out' = out \o SubSeq(buffer, 1, bytes)
                   /\ bytes_written' = bytes_written + bytes
                   /\ write_failed' = write_failed
             \/ /\ out' = out
                /\ bytes_written' = bytes_written
                /\ write_failed' = TRUE
    /\ nwrites' = nwrites + 1
    /\ UNCHANGED <<outputs, op, pc, xref, contents_map, idx, xref_start, emitted, sections>>

\* CountingWrite::write_all: self.bytes_written += buffer.len();
\* self.inner.write_all(buffer)
SinkWriteAll ==
    /\ op = "sink"
    /\ nwrites < MaxCalls
    /\ \E buffer \in SinkBuffers \ {<<>>} :
          /\ arg' = Append(arg, [call |-> "write_all", buffer |-> buffer])
          /\ \E fail \in FailPoints(<<buffer>>) : \E partial \in Partials(<<buffer>>, fail) :
                Sink(<<buffer>>, fail, partial)
    /\ UNCHANGED <<outputs, op, pc, xref, contents_map, idx, xref_start, emitted, sections>>

NextSink ==
    \/ SinkWrite
    \/ SinkWriteAll

SpecSink == InitSink /\ [][NextSink]_vars

-----------------------------------------------------------------------------
(* Claims on the byte counter.                                             *)

\* C17: after any sequence of write and write_all calls, successful or
\* failed, the counter is the number of bytes the destination accepted
C17_CounterIsBytesAccepted ==
    op = "sink" => bytes_written = Len(out)

\* the statement of C17 for the sequences of calls of which none failed
C17_CounterWithoutFailure ==
    (op = "sink" /\ ~write_failed) => bytes_written = Len(out)

\* the statement of C17 for the sequences of write calls, failed or not
C17_CounterOfWriteCalls ==
    (op = "sink" /\ \A k \in 1..Len(arg) : arg[k].call = "write")
    => bytes_written = Len(out)

-----------------------------------------------------------------------------
(* Claims on what the Contents byte-map records.                           *)

\* the object is a Dictionary or a Stream whose last key is "Contents"
EndsWithContents(object) ==
    /\ object.t \in {"Dictionary", "Stream"}
    /\ object.dict # <<>>
    /\ object.dict[Len(object.dict)].key = <<67, 111, 110, 116, 101, 110, 116, 115>>

\* C18: the Contents byte-map holds a span for no id but that of the
\* indirect object written, and for it only if the object holds a
\* "Contents" key; of several such keys the span kept is that of the value
\* whose serialization ended last, so the value of an outer "Contents" key
\* replaces the span of a key nested inside it; and the object written with
\* no object id (as the trailer is) or with no map (as a content-stream
\* operand is) records nothing
C18_ContentsMapKeepsLastSpan ==
    (op = "write_indirect_object" /\ pc = "done") =>
        LET values == ContentsValues(arg.object)
            no_oid == WriteObject(Len(Preamble), arg.object, NoOid, SomeMap(EmptyMap))
            no_map == WriteObject(Len(Preamble), arg.object, SomeOid(arg.oid), NoMap)
            operand == WriteObject(0, arg.object, NoOid, NoMap)
        IN /\ contents_map.some
           /\ DOMAIN contents_map.m \subseteq {arg.oid}
           /\ (arg.oid \in DOMAIN contents_map.m => values # <<>>)
           /\ (values # <<>> => SpanIs(arg.oid, values[Len(values)]))
           /\ (EndsWithContents(arg.object)
                 => SpanIs(arg.oid, arg.object.dict[Len(arg.object.dict)].value))
           /\ no_oid.map.some /\ DOMAIN no_oid.map.m = {}
           /\ ~no_map.map.some
           /\ ~operand.map.some

\* a dictionary whose "Contents" value is a dictionary with a "Contents"
\* key of its own: the span kept is that of the outer value
C18_Witness ==
    /\ op = "write_indirect_object" /\ pc = "done"
    /\ arg.object.t = "Dictionary"
    /\ Len(arg.object.dict) = 1
    /\ EndsWithContents(arg.object)
    /\ EndsWithContents(arg.object.dict[1].value)
    /\ arg.object.dict[1].value.t = "Dictionary"
    /\ Len(ContentsValues(arg.object)) = 2
    /\ SpanIs(arg.oid, arg.object.dict[1].value)
    /\ ~SpanIs(arg.oid, arg.object.dict[1].value.dict[1].value)

-----------------------------------------------------------------------------
(* Claims on reading a literal string back.                                *)

RECURSIVE ReadLiteral(_, _, _, _)
\* a reader of literal strings, from the byte at i on, depth parentheses
\* open and text read so far: a backslash and `r` give CR, a backslash and
\* any other byte give that byte, "(" and ")" are counted and kept, a bare
\* CR is an end of line and reads as LF, and the ")" that closes the first
\* "(" ends the string
ReadLiteral(bytes, i, depth, text) ==
    IF i > Len(bytes) THEN [closed |-> FALSE, text |-> text, end |-> Len(bytes)]
    ELSE IF bytes[i] = 92
    THEN (IF i = Len(bytes) THEN [closed |-> FALSE, text |-> text, end |-> i]
          ELSE ReadLiteral(bytes, i + 2, depth,
                           Append(text, IF bytes[i + 1] = 114 THEN 13 ELSE bytes[i + 1])))
    ELSE IF bytes[i] = 40 THEN ReadLiteral(bytes, i + 1, depth + 1, Append(text, 40))
    ELSE IF bytes[i] = 41
    THEN (IF depth = 1 THEN [closed |-> TRUE, text |-> text, end |-> i]
          ELSE ReadLiteral(bytes, i + 1, depth - 1, Append(text, 41)))
    ELSE IF bytes[i] = 13 THEN ReadLiteral(bytes, i + 1, depth, Append(text, 10))
    ELSE ReadLiteral(bytes, i + 1, depth, Append(text, bytes[i]))

RECURSIVE Unescaped(_, _)
\* the bytes of body from i on that are not part of a backslash pair
Unescaped(body, i) ==
    IF i > Len(body) THEN <<>>
    ELSE IF body[i] = 92 /\ i < Len(body) THEN Unescaped(body, i + 2)
    ELSE <<body[i]>> \o Unescaped(body, i + 1)

\* the "(" less the ")" among the first k bytes
Balance(bytes, k) ==
    Cardinality({j \in 1..k : bytes[j] = 40}) - Cardinality({j \in 1..k : bytes[j] = 41})

\* C19: what the Literal branch writes reads back to its input: between
\* the outer parentheses the unescaped parentheses are balanced (no prefix
\* has more ")" than "(", and as many in all), no unescaped CR or
\* backslash is left, and a reader that counts the nesting depth and takes
\* a backslash with the byte after it (`r` as CR) returns the input and
\* stops at the last ")"
C19_LiteralReadsBack ==
    (op = "write_string" /\ pc = "done" /\ arg.format = "Literal") =>
        /\ Len(out) >= 2
        /\ out[1] = 40
        /\ out[Len(out)] = 41
        /\ LET raw == Unescaped(SubSeq(out, 2, Len(out) - 1), 1)
               read == ReadLiteral(out, 2, 1, <<>>)
           IN /\ \A k \in 0..Len(raw) : Balance(raw, k) >= 0
              /\ Balance(raw, Len(raw)) = 0
              /\ \A k \in 1..Len(raw) : raw[k] \notin {13, 92}
              /\ read.closed
              /\ read.text = arg.text
              /\ read.end = Len(out)

\* a backslash before an `r`, a CR and an open parenthesis never closed:
\* written as "(" \\ r \r \( ")"
C19_Witness ==
    /\ op = "write_string" /\ pc = "done" /\ arg.format = "Literal"
    /\ arg.text = <<92, 114, 13, 40>>
    /\ out = <<40, 92, 92, 114, 92, 114, 92, 40, 41>>
    /\ ReadLiteral(out, 2, 1, <<>>).text = <<92, 114, 13, 40>>

-----------------------------------------------------------------------------
(* Content::encode (src/src/content.rs).                                   *)

\* most operations in a content stream
MaxOps == 2

\* Operation { operator, operands }
Operation(operator, operands) == [operator |-> operator, operands |-> operands]

OperandChunksNoSpace(pos, operand) == WriteObject(pos, operand, NoOid, NoMap).chunks

\* Writer::write_object(&mut buffer, operand, None, None)?;
\* buffer.write_all(b" ")?
OperandChunks(pos, operand) ==
    WriteObject(pos, operand, NoOid, NoMap).chunks \o << <<SP>> >>

RECURSIVE OperandsChunks(_, _, _)
\* for operand in &operation.operands, from the i-th on
OperandsChunks(pos, operands, i) ==
    IF i > Len(operands) THEN <<>>
    ELSE LET one == OperandChunks(pos, operands[i]) IN
         one \o OperandsChunks(pos + TotalLen(one), operands, i + 1)

\* one iteration of the outer loop: the operands, the operator, "\n"
OperationChunks(pos, operation) ==
    OperandsChunks(pos, operation.operands, 1) \o <<operation.operator, <<LF>> >>

RECURSIVE EncodeChunks(_, _, _)
\* for operation in self.operations.as_ref(), from the i-th on
EncodeChunks(pos, operations, i) ==
    IF i > Len(operations) THEN <<>>
    ELSE LET one == OperationChunks(pos, operations[i]) IN
         one \o EncodeChunks(pos + TotalLen(one), operations, i + 1)

\* "BT", "Tj"
Operators == {<<66, 84>>, <<84, 106>>}

\* operand lists of zero, one and two operands of several variants
OperandLists ==
    { <<>>,
      <<Integer(1)>>,
      <<Name(<<70, 49>>), Integer(12)>>,
      <<String(<<LP, 97>>, "Literal")>>,
      <<Array(<<String(<<97>>, "Hexadecimal"), Integer(-7)>>)>>,
      <<Dictionary(<<Entry(ContentsKey, Null)>>), Null>> }

\* every operator with every operand list
Operations ==
    {Operation(operator, operands) : operator \in Operators, operands \in OperandLists}

InitContent ==
    /\ op = "encode"
    /\ arg \in UNION {[1..n -> Operations] : n \in 0..MaxOps}
    /\ Fresh
    /\ Idle

\* Content::encode: the buffer is a Vec<u8> behind a CountingWrite, and is
\* returned
DoEncode ==
    /\ op = "encode"
    /\ pc = "start"
    /\ Sink(EncodeChunks(0, arg, 1), 0, 0)
    /\ pc' = "done"
    /\ UNCHANGED <<outputs, op, arg, xref, contents_map, idx, xref_start, emitted, sections>>

NextContent == DoEncode

SpecContent == InitContent /\ [][NextContent]_vars

-----------------------------------------------------------------------------
(* Claims on the content stream encoder.                                   *)

RECURSIVE ExpectedOperands(_, _)
\* every operand from the i-th on, each followed by one space
ExpectedOperands(operands, i) ==
    IF i > Len(operands) THEN <<>>
    ELSE ObjectBytes(operands[i]) \o <<32>> \o ExpectedOperands(operands, i + 1)

RECURSIVE ExpectedContent(_, _)
\* every operation from the i-th on: its operands, its operator, one LF
ExpectedContent(operations, i) ==
    IF i > Len(operations) THEN <<>>
    ELSE ExpectedOperands(operations[i].operands, 1)
         \o operations[i].operator \o <<10>>
         \o ExpectedContent(operations, i + 1)

\* C20: Content::encode writes the operations in their order, for each
\* its operands in their order, each followed by one space, then the
\* operator and one LF; an operation with no operand gives the operator
\* and LF only, no operation gives an empty blob, and every operand list
\* is written under every operator (no operand of the model holds an LF,
\* so the output holds one LF per operation)
C20_EncodeRendersOperations ==
    (op = "encode" /\ pc = "done") =>
        /\ ~write_failed
        /\ out = ExpectedContent(arg, 1)
        /\ (Len(arg) = 0 => out = <<>>)
        /\ \A i \in 1..Len(arg) :
              Len(arg[i].operands) = 0 =>
                 ExpectedContent(arg, i) = arg[i].operator \o <<10>> \o ExpectedContent(arg, i + 1)
        /\ Cardinality({k \in 1..Len(out) : out[k] = 10}) = Len(arg)

\* "/F1 12 BT\nTj\n": a font and a size under BT, then Tj with no operand
C20_Witness ==
    /\ op = "encode" /\ pc = "done"
    /\ Len(arg) = 2
    /\ arg[1].operator = <<66, 84>> /\ Len(arg[1].operands) = 2
    /\ arg[2].operator = <<84, 106>> /\ Len(arg[2].operands) = 0
    /\ out = <<47, 70, 49, 32, 49, 50, 32, 66, 84, 10, 84, 106, 10>>

=============================================================================
